---- MODULE Spec2Model ----
(***************************************************************************)
(* State of the FoodTime page (src/app/page.tsx, FoodTimeApp): the cart,    *)
(* the favorites, the catalog and the view selections with the filtered and *)
(* sorted arrays derived from them. Every handler replaces one piece of     *)
(* React state through its setter with a pure function of the previous      *)
(* value, so one handler call is one atomic step.                           *)
(* A price is its decimal literal in hundredths and is added up as the      *)
(* IEEE-754 double it denotes; ratings are tenths, inspected strings        *)
(* sequences of characters; names collate by the host's default locale.     *)
(*   Spec      cart under any addToCart/removeFromCart/updateQuantity calls *)
(*   SpecFav   favorites under any toggleFavorite calls                     *)
(*   SpecView  filter and sort over sample menus and selections             *)
(*   SpecUI    cart under the cart events the page emits                    *)
(*   SpecPage  all events of the page                                       *)
(***************************************************************************)
EXTENDS Integers, Sequences, FiniteSets, TLC

\* ---------------------------------------------------------------- bounds
\* Largest quantity a call may produce (caps the counter addToCart grows).
MaxQty == 2
\* Number of most recent handler calls remembered in `hist`.
HistLen == 3
\* Largest item id toggleFavorite is called with (ids 1 .. MaxFavId).
MaxFavId == 3
\* Largest number of items in a sample menu of the view specification.
MaxItems == 3

\* ---------------------------------------------------------------- data
\* Sample of menuData.items (the MenuItem fields the cart logic reads).
MenuItems ==
    << [id |-> 1, price |-> 899],
       [id |-> 2, price |-> 500] >>

Catalog == { MenuItems[k] : k \in DOMAIN MenuItems }

\* itemId arguments the handlers are called with.
ItemIds == { i.id : i \in Catalog }

\* newQuantity arguments of updateQuantity: negative, zero and positive.
QtyArgs == (0 - 1) .. MaxQty

\* itemId arguments of toggleFavorite.
FavIds == 1 .. MaxFavId

\* Full MenuItem records the sample menus are made of. A string that the code
\* inspects (name, description) is the sequence of its characters; rating is in
\* tenths, price in hundredths; `popular` is optional. Prices, ratings and popular
\* flags repeat so that items compare equal under a sort key.
ItemPool ==
    << [ id |-> 1, name |-> << "A", "b" >>, category |-> "pizza", price |-> 500,
         description |-> << "b", "a" >>, rating |-> 45, popular |-> TRUE ],
       [ id |-> 2, name |-> << "a", "B" >>, category |-> "drinks", price |-> 1200,
         description |-> << >>, rating |-> 45 ],
       [ id |-> 3, name |-> << "a", "a" >>, category |-> "pizza", price |-> 800,
         description |-> << "a", "b" >>, rating |-> 40, popular |-> FALSE ],
       [ id |-> 4, name |-> << "B" >>, category |-> "drinks", price |-> 500,
         description |-> << "b", "b" >>, rating |-> 48, popular |-> TRUE ] >>

\* Sequences over S of length 0 .. n without repetition.
RECURSIVE DistinctSeqs(_, _)
DistinctSeqs(S, n) ==
    IF n = 0 THEN { << >> }
    ELSE LET shorter == DistinctSeqs(S, n - 1)
         IN  shorter \cup
             { Append(pr[1], pr[2]) :
                 pr \in { qx \in shorter \X S :
                            /\ Len(qx[1]) = n - 1
                            /\ \A k \in DOMAIN qx[1] : qx[1][k] # qx[2] } }

\* Sample contents of menuData.items: the pool items in any order, ids unique.
SampleMenus ==
    { m \in DistinctSeqs({ ItemPool[k] : k \in DOMAIN ItemPool }, MaxItems) :
        m # << >> }

\* The menu of the page specifications: two items of different categories.
PageMenu == SubSeq(ItemPool, 1, 2)

\* Values of selectedCategory: "all" and the ids of menuData.categories.
CategoryIds == { "all", "pizza", "drinks", "salads" }

\* Texts typed into the search box.
SearchTerms ==
    { << >>, << "a" >>, << "B" >>, << "A", "b" >>, << "b", "a" >>, << "b", "b" >> }

\* The values of the sort Select.
SortKeys == { "popular", "name", "price-low", "price-high", "rating" }

\* Default locales of the hosts the page runs on.  a.name.localeCompare(b.name)
\* is called without a locale and collates by the host's default.  Two
\* properties of a host's collation bear on the names, and a host may have
\* either without the other: which case comes first, and whether "aa" is
\* read as one letter that follows all others.
\*   en-US  lower case first          nb-NO  lower case first, aa one letter
\*   mt-MT  upper case first          da-DK  upper case first, aa one letter
Locales == { "en-US", "da-DK", "nb-NO", "mt-MT" }

\* The hosts that collate upper case before lower case.
UpperFirst == { "da-DK", "mt-MT" }

\* The hosts that read aa, Aa and AA as one letter.
DigraphHosts == { "da-DK", "nb-NO" }

VARIABLES
    cart,       \* useState<CartItem[]>([]): sequence of [id, price, quantity]
    favorites,  \* useState<number[]>([]): sequence of item ids
    hist,       \* observer: the last HistLen handler calls, each with the
                \* state part the handler writes (cart or favorites) before it
    menu,              \* menuData.items, the imported static list
    items,             \* useState<MenuItem[]>([])
    mounted,           \* the useEffect(..., []) of the component has run
    selectedCategory,  \* useState<string>("all")
    searchTerm,        \* useState<string>("")
    sortBy,            \* useState<string>("popular")
    filteredItems,     \* the filteredItems array of the last render
    sortedItems,       \* the sortedItems array of the last render
    locale             \* the default locale of the host, fixed for a run

\* The catalog, the view selections, the arrays derived from them and the
\* host's locale.
viewVars ==
    << menu, items, mounted, selectedCategory, searchTerm, sortBy,
       filteredItems, sortedItems, locale >>

vars == << cart, favorites, hist, viewVars >>

\* ---------------------------------------------------------------- cart functions
\* prevCart.find((cartItem) => cartItem.id === item.id) is truthy
existingItem(prevCart, itemId) ==
    \E k \in DOMAIN prevCart : prevCart[k].id = itemId

\* { ...item, quantity: 1 }
newLine(item) == [quantity |-> 1] @@ item

\* Faulty variant: the existing-line branch is missing, every add appends a line.
addToCart_alwaysAppends(prevCart, item) ==
    Append(prevCart, newLine(item))

\* Faulty variant: the map increments every line, not only the line of item.id.
addToCart_incrementsAll(prevCart, item) ==
    IF existingItem(prevCart, item.id)
    THEN [ k \in DOMAIN prevCart |->
             [ prevCart[k] EXCEPT !.quantity = @ + 1 ] ]
    ELSE Append(prevCart, newLine(item))

\* the updater passed to setCart by addToCart
addToCart(prevCart, item) ==
    IF existingItem(prevCart, item.id)
    THEN [ k \in DOMAIN prevCart |->
             IF prevCart[k].id = item.id
             THEN [ prevCart[k] EXCEPT !.quantity = @ + 1 ]
             ELSE prevCart[k] ]
    ELSE Append(prevCart, newLine(item))

\* Faulty variant: the filter predicate is inverted (=== for !==).
keepLine_matching(line, itemId) == line.id = itemId

\* (item) => item.id !== itemId
keepLine(line, itemId) == line.id # itemId

\* Faulty variant: remove takes one unit off the line and drops it only at zero.
removeFromCart_decrements(prevCart, itemId) ==
    SelectSeq(
        [ k \in DOMAIN prevCart |->
            IF prevCart[k].id = itemId
            THEN [ prevCart[k] EXCEPT !.quantity = @ - 1 ]
            ELSE prevCart[k] ],
        LAMBDA line : line.id # itemId \/ line.quantity > 0)

\* the updater passed to setCart by removeFromCart
removeFromCart(prevCart, itemId) ==
    SelectSeq(prevCart, LAMBDA line : keepLine(line, itemId))

\* Faulty variant: the newQuantity === 0 branch is missing, the line stays with quantity 0.
updateQuantity_noZeroBranch(prevCart, itemId, newQuantity) ==
    [ k \in DOMAIN prevCart |->
        IF prevCart[k].id = itemId
        THEN [ prevCart[k] EXCEPT !.quantity = newQuantity ]
        ELSE prevCart[k] ]

\* Faulty variant: newQuantity === 0 undoes one unit instead of removing the line.
updateQuantity_zeroDecrements(prevCart, itemId, newQuantity) ==
    IF newQuantity = 0
    THEN removeFromCart_decrements(prevCart, itemId)
    ELSE [ k \in DOMAIN prevCart |->
             IF prevCart[k].id = itemId
             THEN [ prevCart[k] EXCEPT !.quantity = newQuantity ]
             ELSE prevCart[k] ]

\* Faulty variant: the map adds newQuantity to the line instead of setting it.
updateQuantity_addsQuantity(prevCart, itemId, newQuantity) ==
    IF newQuantity = 0
    THEN removeFromCart(prevCart, itemId)
    ELSE [ k \in DOMAIN prevCart |->
             IF prevCart[k].id = itemId
             THEN [ prevCart[k] EXCEPT !.quantity = @ + newQuantity ]
             ELSE prevCart[k] ]

\* Faulty variant: a positive quantity for an id without a line creates the line.
updateQuantity_upserts(prevCart, itemId, newQuantity) ==
    IF newQuantity = 0
    THEN removeFromCart(prevCart, itemId)
    ELSE IF newQuantity > 0 /\ ~existingItem(prevCart, itemId)
         THEN prevCart \o
              [ k \in 1 .. 1 |->
                  [ quantity |-> newQuantity ] @@
                  (CHOOSE item \in Catalog : item.id = itemId) ]
         ELSE [ k \in DOMAIN prevCart |->
                  IF prevCart[k].id = itemId
                  THEN [ prevCart[k] EXCEPT !.quantity = newQuantity ]
                  ELSE prevCart[k] ]

\* updateQuantity: newQuantity === 0 delegates to removeFromCart, otherwise map
updateQuantity(prevCart, itemId, newQuantity) ==
    IF newQuantity = 0
    THEN removeFromCart(prevCart, itemId)
    ELSE [ k \in DOMAIN prevCart |->
             IF prevCart[k].id = itemId
             THEN [ prevCart[k] EXCEPT !.quantity = newQuantity ]
             ELSE prevCart[k] ]

\* ---------------------------------------------------------------- numbers
\* item.price is a JavaScript number: an IEEE-754 double.  A catalog record
\* carries the decimal literal of menu.json in hundredths (8.99 is 899), and
\* the arithmetic of getTotalPrice is done on the doubles the literals denote.
\* A natural number is the sequence of its digits to the base 2^LimbBits, lowest
\* first; a double is [neg, mant, exp] with the value (-1)^neg * mant * 2^exp,
\* mant having SignificandBits binary digits, or being empty for zero.
SignificandBits == 53

LimbBits == 16

Base == 2 ^ LimbBits

\* The literal is scaled by 2^ScaleBits before the division by 100, so that the
\* quotient has more binary digits than a significand.
ScaleBits == 60

Zero == [ neg |-> FALSE, mant |-> << >>, exp |-> 0 ]

RECURSIVE limbsOf(_)
limbsOf(n) == IF n = 0 THEN << >> ELSE << n % Base >> \o limbsOf(n \div Base)

RECURSIVE trim(_)
trim(a) ==
    IF a = << >> \/ a[Len(a)] # 0 THEN a ELSE trim(SubSeq(a, 1, Len(a) - 1))

limbAt(a, k) == IF k <= Len(a) THEN a[k] ELSE 0

RECURSIVE plusFrom(_, _, _, _)
plusFrom(a, b, k, carry) ==
    IF k > Len(a) /\ k > Len(b)
    THEN IF carry = 0 THEN << >> ELSE << carry >>
    ELSE LET s == limbAt(a, k) + limbAt(b, k) + carry
         IN  << s % Base >> \o plusFrom(a, b, k + 1, s \div Base)

plus(a, b) == plusFrom(a, b, 1, 0)

\* a - b for a >= b
RECURSIVE minusFrom(_, _, _, _)
minusFrom(a, b, k, borrow) ==
    IF k > Len(a) THEN << >>
    ELSE LET d == limbAt(a, k) - limbAt(b, k) - borrow
         IN  << d % Base >> \o minusFrom(a, b, k + 1, IF d < 0 THEN 1 ELSE 0)

minus(a, b) == trim(minusFrom(a, b, 1, 0))

RECURSIVE magnitudeFrom(_, _, _)
magnitudeFrom(a, b, k) ==
    IF k = 0 THEN 0
    ELSE IF a[k] # b[k] THEN a[k] - b[k]
    ELSE magnitudeFrom(a, b, k - 1)

\* negative, zero or positive as a is below, equal to or above b
compareMagnitude(a, b) ==
    IF Len(a) # Len(b) THEN Len(a) - Len(b) ELSE magnitudeFrom(a, b, Len(a))

\* a * n for 0 < n < Base / 2
RECURSIVE timesFrom(_, _, _, _)
timesFrom(a, k, n, carry) ==
    IF k > Len(a)
    THEN IF carry = 0 THEN << >> ELSE << carry >>
    ELSE LET p == a[k] * n + carry
         IN  << p % Base >> \o timesFrom(a, k + 1, n, p \div Base)

timesSmall(a, n) == timesFrom(a, 1, n, 0)

\* Limbs k .. 1 of a divided by 0 < by < Base / 2, rem carried from above: the
\* remainder followed by the limbs of the quotient.
RECURSIVE divideFrom(_, _, _, _)
divideFrom(a, k, by, rem) ==
    IF k = 0 THEN << rem >>
    ELSE LET r2 == rem * Base + a[k]
         IN  Append(divideFrom(a, k - 1, by, r2 % by), r2 \div by)

\* a * 2^k
shiftLeft(a, k) ==
    IF a = << >> THEN << >>
    ELSE [ i \in 1 .. (k \div LimbBits) |-> 0 ] \o timesSmall(a, 2 ^ (k % LimbBits))

\* a \div 2^k
shiftRight(a, k) ==
    LET upper == SubSeq(a, (k \div LimbBits) + 1, Len(a))
    IN  trim(Tail(divideFrom(upper, Len(upper), 2 ^ (k % LimbBits), 0)))

\* a % 2^k # 0
anyBelow(a, k) ==
    \/ \E i \in 1 .. (k \div LimbBits) : limbAt(a, i) # 0
    \/ limbAt(a, (k \div LimbBits) + 1) % (2 ^ (k % LimbBits)) # 0

isOdd(a) == limbAt(a, 1) % 2 = 1

\* the number of binary digits of a
bitLength(a) ==
    IF a = << >> THEN 0
    ELSE LimbBits * (Len(a) - 1)
         + (CHOOSE w \in 1 .. LimbBits :
                2 ^ (w - 1) <= a[Len(a)] /\ a[Len(a)] < 2 ^ w)

\* The double nearest to (-1)^neg * (n + f) * 2^e, ties to the even significand,
\* where 0 <= f < 1 and f > 0 iff inexact (inexact only with a long n).
roundToDouble(neg, n, inexact, e) ==
    IF n = << >> THEN Zero
    ELSE IF bitLength(n) <= SignificandBits
    THEN [ neg  |-> neg,
           mant |-> shiftLeft(n, SignificandBits - bitLength(n)),
           exp  |-> e - (SignificandBits - bitLength(n)) ]
    ELSE LET d     == bitLength(n) - SignificandBits
             q     == shiftRight(n, d - 1)
             kept  == shiftRight(q, 1)
             below == inexact \/ anyBelow(n, d - 1)
             up    == isOdd(q) /\ (below \/ isOdd(kept))
             r     == IF up THEN plus(kept, << 1 >>) ELSE kept
         IN  IF bitLength(r) > SignificandBits
             THEN [ neg |-> neg, mant |-> shiftRight(r, 1), exp |-> e + d + 1 ]
             ELSE [ neg |-> neg, mant |-> r, exp |-> e + d ]

\* The number a decimal literal denotes, the literal given in hundredths.
numberOf(hundredths) ==
    LET mag    == IF hundredths < 0 THEN 0 - hundredths ELSE hundredths
        scaled == shiftLeft(limbsOf(mag), ScaleBits)
        d      == divideFrom(scaled, Len(scaled), 100, 0)
    IN  roundToDouble(hundredths < 0, trim(Tail(d)), Head(d) # 0, 0 - ScaleBits)

\* x * n for a number x and an integer n, as item.price * item.quantity
multiply(x, n) ==
    IF n = 0 THEN Zero
    ELSE roundToDouble(x.neg # (n < 0),
                       timesSmall(x.mant, IF n < 0 THEN 0 - n ELSE n), FALSE, x.exp)

\* x + y for numbers x and y, as total + ...
add(x, y) ==
    IF x.mant = << >> THEN y
    ELSE IF y.mant = << >> THEN x
    ELSE LET e == IF x.exp < y.exp THEN x.exp ELSE y.exp
             a == shiftLeft(x.mant, x.exp - e)
             b == shiftLeft(y.mant, y.exp - e)
             c == compareMagnitude(a, b)
         IN  IF x.neg = y.neg THEN roundToDouble(x.neg, plus(a, b), FALSE, e)
             ELSE IF c = 0 THEN Zero
             ELSE IF c > 0 THEN roundToDouble(x.neg, minus(a, b), FALSE, e)
             ELSE roundToDouble(y.neg, minus(b, a), FALSE, e)

\* cart.reduce((total, item) => total + item.price * item.quantity, total)
RECURSIVE reducePrice(_, _)
reducePrice(c, total) ==
    IF c = << >> THEN total
    ELSE reducePrice(Tail(c),
                     add(total, multiply(numberOf(Head(c).price), Head(c).quantity)))

getTotalPrice(c) == reducePrice(c, Zero)

\* cart.reduce((total, item) => total + item.quantity, total)
RECURSIVE reduceItems(_, _)
reduceItems(c, total) ==
    IF c = << >> THEN total
    ELSE reduceItems(Tail(c), total + Head(c).quantity)

getTotalItems(c) == reduceItems(c, 0)

\* ---------------------------------------------------------------- favorites
\* Faulty variant: removing an id clears the whole list.
toggleFavorite_clearsOnRemove(prev, itemId) ==
    IF \E k \in DOMAIN prev : prev[k] = itemId
    THEN << >>
    ELSE Append(prev, itemId)

\* the updater passed to setFavorites by toggleFavorite:
\* prev.includes(itemId) ? prev.filter((id) => id !== itemId) : [...prev, itemId]
toggleFavorite(prev, itemId) ==
    IF \E k \in DOMAIN prev : prev[k] = itemId
    THEN SelectSeq(prev, LAMBDA id : id # itemId)
    ELSE Append(prev, itemId)

\* ---------------------------------------------------------------- filter and sort
\* String.prototype.toLowerCase on the characters the samples use
lowerChar(ch) == CASE ch = "A" -> "a" [] ch = "B" -> "b" [] OTHER -> ch

toLowerCase(str) == [ k \in DOMAIN str |-> lowerChar(str[k]) ]

\* String.prototype.includes: sub occurs in str as a contiguous run
includes(str, sub) ==
    \E i \in 0 .. (Len(str) - Len(sub)) : SubSeq(str, i + 1, i + Len(sub)) = sub

matchesCategory(item, category) == category = "all" \/ item.category = category

\* Faulty variant: the search text is not lower-cased before the test.
matchesSearch_termAsTyped(item, term) ==
    \/ includes(toLowerCase(item.name), term)
    \/ includes(toLowerCase(item.description), term)

matchesSearch(item, term) ==
    \/ includes(toLowerCase(item.name), toLowerCase(term))
    \/ includes(toLowerCase(item.description), toLowerCase(term))

\* items.filter((item) => matchesCategory && matchesSearch): a new array
filterItems(its, category, term) ==
    SelectSeq(its, LAMBDA item : matchesCategory(item, category) /\ matchesSearch(item, term))

\* Danish and Norwegian write their last letter also as the digraph aa, Aa or
\* AA.
isDigraph(str, loc) ==
    /\ loc \in DigraphHosts
    /\ Len(str) >= 2
    /\ SubSeq(str, 1, 2) \in { << "a", "a" >>, << "A", "a" >>, << "A", "A" >> }

\* The letters String.prototype.localeCompare collates a string by, each the
\* one or two characters that write it.
RECURSIVE collationElements(_, _)
collationElements(str, loc) ==
    IF str = << >> THEN << >>
    ELSE IF isDigraph(str, loc)
    THEN << SubSeq(str, 1, 2) >> \o collationElements(SubSeq(str, 3, Len(str)), loc)
    ELSE << SubSeq(str, 1, 1) >> \o collationElements(Tail(str), loc)

\* Rank of a letter, case ignored: a, b, then the digraph.
letterRank(el) ==
    IF Len(el) = 2 THEN 3 ELSE IF lowerChar(el[1]) = "a" THEN 1 ELSE 2

\* Rank of a letter's case: lower case first or upper case first as the host
\* has it, a digraph of mixed case between the two.
caseRank(el, loc) ==
    LET lowers == Cardinality({ k \in DOMAIN el : lowerChar(el[k]) = el[k] })
    IN  IF loc \in UpperFirst
        THEN (IF lowers = 0 THEN 0 ELSE IF lowers < Len(el) THEN 1 ELSE 2)
        ELSE Len(el) - lowers

\* Sign of the first difference of two rank sequences, the shorter first on a tie.
RECURSIVE lexCompare(_, _)
lexCompare(x, y) ==
    IF x = << >> /\ y = << >> THEN 0
    ELSE IF x = << >> THEN 0 - 1
    ELSE IF y = << >> THEN 1
    ELSE IF Head(x) < Head(y) THEN 0 - 1
    ELSE IF Head(x) > Head(y) THEN 1
    ELSE lexCompare(Tail(x), Tail(y))

\* a.localeCompare(b) on a host of default locale loc: letters first, case only
\* between otherwise equal strings
localeCompare(a, b, loc) ==
    LET x       == collationElements(a, loc)
        y       == collationElements(b, loc)
        letters == lexCompare([ k \in DOMAIN x |-> letterRank(x[k]) ],
                              [ k \in DOMAIN y |-> letterRank(y[k]) ])
    IN  IF letters # 0 THEN letters
        ELSE lexCompare([ k \in DOMAIN x |-> caseRank(x[k], loc) ],
                        [ k \in DOMAIN y |-> caseRank(y[k], loc) ])

\* item.popular ? 1 : 0 (an absent flag is falsy)
popularFlag(item) == IF "popular" \in DOMAIN item /\ item.popular THEN 1 ELSE 0

\* Faulty variant: "price-high" compares like "price-low".
compare_priceHighAscending(a, b, key, loc) ==
    CASE key = "price-low"  -> a.price - b.price
      [] key = "price-high" -> a.price - b.price
      [] key = "rating"     -> b.rating - a.rating
      [] key = "popular"    -> popularFlag(b) - popularFlag(a)
      [] OTHER              -> localeCompare(a.name, b.name, loc)

\* the comparator passed to sort: switch (sortBy); only its sign is used, and
\* the difference of two prices or ratings has the same sign in hundredths or
\* tenths as in doubles
compare(a, b, key, loc) ==
    CASE key = "price-low"  -> a.price - b.price
      [] key = "price-high" -> b.price - a.price
      [] key = "rating"     -> b.rating - a.rating
      [] key = "popular"    -> popularFlag(b) - popularFlag(a)
      [] OTHER              -> localeCompare(a.name, b.name, loc)

\* Array.prototype.sort is stable: x goes behind every element that does not
\* compare greater than it.
RECURSIVE insertSorted(_, _, _, _)
insertSorted(sorted, x, key, loc) ==
    IF sorted = << >> THEN << x >>
    ELSE IF compare(Head(sorted), x, key, loc) <= 0
         THEN << Head(sorted) >> \o insertSorted(Tail(sorted), x, key, loc)
         ELSE << x >> \o sorted

RECURSIVE sortInto(_, _, _, _)
sortInto(sorted, rest, key, loc) ==
    IF rest = << >> THEN sorted
    ELSE sortInto(insertSorted(sorted, Head(rest), key, loc), Tail(rest), key, loc)

\* array.sort((a, b) => ...) : the array's elements in sorted order
sort(array, key, loc) == sortInto(<< >>, array, key, loc)

\* Faulty variant: filteredItems.sort(...) without the copy sorts filteredItems
\* itself and returns that same array.
renderView_sortsInPlace(its, category, term, key, loc) ==
    LET sorted == sort(filterItems(its, category, term), key, loc)
    IN  [ filteredItems |-> sorted, sortedItems |-> sorted ]

\* One render on a host of default locale loc: filteredItems =
\* items.filter(...), then sortedItems = [...filteredItems].sort(...) sorts a
\* copy, so filteredItems keeps the filter's result.
renderView(its, category, term, key, loc) ==
    LET filtered == filterItems(its, category, term)
        copy     == filtered
    IN  [ filteredItems |-> filtered, sortedItems |-> sort(copy, key, loc) ]

\* ---------------------------------------------------------------- observer
Call(op, itemId, n) == [ op |-> op, id |-> itemId, n |-> n, pre |-> cart ]

\* A toggleFavorite call, with the favorites list before it.
FavCall(itemId) == [ op |-> "toggle", id |-> itemId, n |-> 0, pre |-> favorites ]

Remember(call) ==
    IF Len(hist) < HistLen THEN Append(hist, call) ELSE Append(Tail(hist), call)

\* ---------------------------------------------------------------- actions
\* The state after the first render, with m the imported menuData.items, on a
\* host of default locale loc.
InitWith(m, loc) ==
    /\ cart = << >>
    /\ favorites = << >>
    /\ hist = << >>
    /\ menu = m
    /\ items = << >>
    /\ mounted = FALSE
    /\ selectedCategory = "all"
    /\ searchTerm = << >>
    /\ sortBy = "popular"
    /\ filteredItems = << >>
    /\ sortedItems = << >>
    /\ locale = loc

\* The cart handlers never collate: one host stands for all.
Init == InitWith(MenuItems, "en-US")

\* The render that follows a state change, from the values the state then has.
Render(its, category, term, key) ==
    LET view == renderView(its, category, term, key, locale)
    IN  /\ filteredItems' = view.filteredItems
        /\ sortedItems' = view.sortedItems

\* useEffect(() => { setItems(menuData.items); ... }, []): once, after mount
LoadMenu ==
    /\ ~mounted
    /\ mounted' = TRUE
    /\ items' = menu
    /\ Render(menu, selectedCategory, searchTerm, sortBy)
    /\ UNCHANGED << cart, favorites, hist, menu, selectedCategory, searchTerm, sortBy, locale >>

\* onClick={() => setSelectedCategory(...)}
SetSelectedCategory(category) ==
    /\ selectedCategory' = category
    /\ Render(items, category, searchTerm, sortBy)
    /\ UNCHANGED << cart, favorites, hist, menu, items, mounted, searchTerm, sortBy, locale >>

\* onChange={(e) => setSearchTerm(e.target.value)}
SetSearchTerm(term) ==
    /\ searchTerm' = term
    /\ Render(items, selectedCategory, term, sortBy)
    /\ UNCHANGED << cart, favorites, hist, menu, items, mounted, selectedCategory, sortBy, locale >>

\* onValueChange={setSortBy}
SetSortBy(key) ==
    /\ sortBy' = key
    /\ Render(items, selectedCategory, searchTerm, key)
    /\ UNCHANGED << cart, favorites, hist, menu, items, mounted, selectedCategory, searchTerm, locale >>

\* What each handler does to the component state: the one setter it calls.
OnAddToCart(item) ==
    /\ cart' = addToCart(cart, item)
    /\ UNCHANGED << favorites, viewVars >>

\* Faulty variant: removing a line also drops the id from the favorites.
OnRemoveFromCart_unfavorites(itemId) ==
    /\ cart' = removeFromCart(cart, itemId)
    /\ favorites' = SelectSeq(favorites, LAMBDA id : id # itemId)
    /\ UNCHANGED viewVars

OnRemoveFromCart(itemId) ==
    /\ cart' = removeFromCart(cart, itemId)
    /\ UNCHANGED << favorites, viewVars >>

OnUpdateQuantity(itemId, newQuantity) ==
    /\ cart' = updateQuantity(cart, itemId, newQuantity)
    /\ UNCHANGED << favorites, viewVars >>

OnToggleFavorite(itemId) ==
    /\ favorites' = toggleFavorite(favorites, itemId)
    /\ UNCHANGED << cart, viewVars >>

\* The handler calls, each entered in the call log.
\* onClick={() => addToCart(item)}
AddToCart(item) ==
    /\ \A k \in DOMAIN cart : cart[k].id = item.id => cart[k].quantity < MaxQty
    /\ OnAddToCart(item)
    /\ hist' = Remember(Call("add", item.id, 1))

RemoveFromCart(itemId) ==
    /\ OnRemoveFromCart(itemId)
    /\ hist' = Remember(Call("remove", itemId, 0))

UpdateQuantity(itemId, newQuantity) ==
    /\ OnUpdateQuantity(itemId, newQuantity)
    /\ hist' = Remember(Call("update", itemId, newQuantity))

\* onClick={() => toggleFavorite(item.id)}
ToggleFavorite(itemId) ==
    /\ OnToggleFavorite(itemId)
    /\ hist' = Remember(FavCall(itemId))

Next ==
    \/ \E item \in Catalog : AddToCart(item)
    \/ \E itemId \in ItemIds : RemoveFromCart(itemId)
    \/ \E itemId \in ItemIds, n \in QtyArgs : UpdateQuantity(itemId, n)

Spec == Init /\ [][Next]_vars

\* The favorites list under any sequence of toggleFavorite calls.
NextFav == \E itemId \in FavIds : ToggleFavorite(itemId)

SpecFav == Init /\ [][NextFav]_vars

\* The catalog view: any menu, then any sequence of category, search and sort
\* selections.
InitView == \E m \in SampleMenus, loc \in Locales : InitWith(m, loc)

NextView ==
    \/ LoadMenu
    \/ \E category \in CategoryIds : SetSelectedCategory(category)
    \/ \E term \in SearchTerms : SetSearchTerm(term)
    \/ \E key \in SortKeys : SetSortBy(key)

SpecView == InitView /\ [][NextView]_vars

\* ---------------------------------------------------------------- page events
\* "Add to Cart" on the k-th card of the grid: addToCart(item)
ClickAddToCart(k) == AddToCart(sortedItems[k])

\* The X button of the k-th cart line: removeFromCart(item.id)
ClickRemove(k) == RemoveFromCart(cart[k].id)

\* The minus button of the k-th cart line: updateQuantity(item.id, item.quantity - 1)
ClickMinus(k) == UpdateQuantity(cart[k].id, cart[k].quantity - 1)

\* The plus button of the k-th cart line: updateQuantity(item.id, item.quantity + 1)
ClickPlus(k) ==
    /\ cart[k].quantity < MaxQty
    /\ UpdateQuantity(cart[k].id, cart[k].quantity + 1)

\* The cart under the cart events the page emits, all items on display.
InitUI == \E loc \in Locales : InitWith(PageMenu, loc)

NextUI ==
    \/ LoadMenu
    \/ \E k \in DOMAIN sortedItems : ClickAddToCart(k)
    \/ \E k \in DOMAIN cart : ClickRemove(k)
    \/ \E k \in DOMAIN cart : ClickMinus(k)
    \/ \E k \in DOMAIN cart : ClickPlus(k)

SpecUI == InitUI /\ [][NextUI]_vars

\* The whole page: every event it emits, in any order. The call log is not
\* kept here.
PageAddToCart(k) ==
    /\ \A j \in DOMAIN cart :
          cart[j].id = sortedItems[k].id => cart[j].quantity < MaxQty
    /\ OnAddToCart(sortedItems[k])
    /\ UNCHANGED hist

PageRemove(k) == OnRemoveFromCart(cart[k].id) /\ UNCHANGED hist

PageMinus(k) == OnUpdateQuantity(cart[k].id, cart[k].quantity - 1) /\ UNCHANGED hist

PagePlus(k) ==
    /\ cart[k].quantity < MaxQty
    /\ OnUpdateQuantity(cart[k].id, cart[k].quantity + 1)
    /\ UNCHANGED hist

\* The heart button of the k-th card: toggleFavorite(item.id)
PageFavorite(k) == OnToggleFavorite(sortedItems[k].id) /\ UNCHANGED hist

NextPage ==
    \/ LoadMenu
    \/ \E k \in DOMAIN sortedItems : PageAddToCart(k)
    \/ \E k \in DOMAIN cart : PageRemove(k)
    \/ \E k \in DOMAIN cart : PageMinus(k)
    \/ \E k \in DOMAIN cart : PagePlus(k)
    \/ \E k \in DOMAIN sortedItems : PageFavorite(k)
    \/ \E category \in CategoryIds : SetSelectedCategory(category)
    \/ \E term \in SearchTerms : SetSearchTerm(term)
    \/ \E key \in SortKeys : SetSortBy(key)

SpecPage == InitUI /\ [][NextPage]_vars

\* ---------------------------------------------------------------- reading the observer
\* The call made k calls ago (0 = the most recent one).
Ago(k) == hist[Len(hist) - k]

Called(k, op) == Len(hist) > k /\ Ago(k).op = op

\* Positions of the lines of c that carry itemId.
LinesOf(c, itemId) == { k \in DOMAIN c : c[k].id = itemId }

HasLine(c, itemId) == LinesOf(c, itemId) # {}

\* c with every line of itemId deleted, the other lines in their order.
RECURSIVE Without(_, _)
Without(c, itemId) ==
    IF c = << >> THEN << >>
    ELSE IF Head(c).id = itemId
         THEN Without(Tail(c), itemId)
         ELSE << Head(c) >> \o Without(Tail(c), itemId)

\* Sum of f[k] over the finite set S of positions.
RECURSIVE SumOver(_, _)
SumOver(S, f) ==
    IF S = {} THEN 0
    ELSE LET k == CHOOSE x \in S : TRUE IN f[k] + SumOver(S \ {k}, f)

\* Total quantity held by the lines of itemId in c.
QtyOf(c, itemId) == SumOver(LinesOf(c, itemId), [ k \in DOMAIN c |-> c[k].quantity ])

\* ---------------------------------------------------------------- claims

\* C1: in every state reachable from the empty cart by addToCart,
\* removeFromCart and updateQuantity calls, the cart holds at most one line
\* per distinct item id.
C1_OneLinePerId ==
    \A j, k \in DOMAIN cart : cart[j].id = cart[k].id => j = k

\* C1 witness: a repeat add hit a cart of two lines that already held the item.
C1_Witness ==
    /\ Called(0, "add")
    /\ HasLine(Ago(0).pre, Ago(0).id)
    /\ Len(cart) = 2

\* C2: addToCart(item) always succeeds; on a cart that has a line with
\* item.id that line's quantity grows by exactly 1 and the number of lines is
\* unchanged, otherwise exactly one line with quantity 1 is added; every line
\* with a different id keeps its quantity.
C2_AddToCart ==
    /\ \A item \in Catalog : HasLine(addToCart(cart, item), item.id)
    /\ Called(0, "add") =>
         LET pre == Ago(0).pre
             id  == Ago(0).id
         IN  IF HasLine(pre, id)
             THEN /\ Len(cart) = Len(pre)
                  /\ \A k \in DOMAIN pre :
                        /\ cart[k].id = pre[k].id
                        /\ cart[k].quantity =
                             pre[k].quantity + (IF pre[k].id = id THEN 1 ELSE 0)
             ELSE /\ Len(cart) = Len(pre) + 1
                  /\ SubSeq(cart, 1, Len(pre)) = pre
                  /\ cart[Len(cart)].id = id
                  /\ cart[Len(cart)].quantity = 1

\* C2 witness: an add incremented an existing line while another line was present.
C2_Witness ==
    /\ Called(0, "add")
    /\ HasLine(Ago(0).pre, Ago(0).id)
    /\ \E k \in DOMAIN cart : cart[k].id # Ago(0).id

\* The run add(i), add(i), remove(i) has just ended, begun without a line for i.
AddAddRemove ==
    /\ Called(2, "add") /\ Called(1, "add") /\ Called(0, "remove")
    /\ Ago(1).id = Ago(2).id /\ Ago(0).id = Ago(2).id
    /\ ~HasLine(Ago(2).pre, Ago(2).id)

\* C3 as stated: from a cart with no line for an item, add(item) twice and
\* then remove(item.id) once leaves a line for that item with quantity 1.
C3_AddAddRemoveLeavesOne ==
    AddAddRemove =>
        \E k \in DOMAIN cart : cart[k].id = Ago(0).id /\ cart[k].quantity = 1

\* C3 amended: from a cart with no line for an item, add(item) twice and then
\* remove(item.id) once leaves no line for that item: remove deletes the whole
\* line, here of quantity 2, and the cart is the one before the two adds.
C3_AddAddRemoveLeavesNone ==
    AddAddRemove =>
        /\ QtyOf(Ago(0).pre, Ago(0).id) = 2
        /\ ~HasLine(cart, Ago(0).id)
        /\ cart = Ago(2).pre

\* C3 witness: the run happened next to another line.
C3_Witness == AddAddRemove /\ Len(Ago(0).pre) = 2

\* The run add(i), setQuantity(i, 0) has just ended.
AddThenZero ==
    /\ Called(1, "add") /\ Called(0, "update")
    /\ Ago(0).id = Ago(1).id /\ Ago(0).n = 0

\* C4 as stated: totalItemCount after add(item) then setQuantity(item.id, 0)
\* equals totalItemCount before the add, also when the cart already held a
\* line for that item.
C4_AddThenZeroRestoresCount ==
    AddThenZero => getTotalItems(cart) = getTotalItems(Ago(1).pre)

\* C4 amended: totalItemCount after add(item) then setQuantity(item.id, 0)
\* equals totalItemCount before the add minus the quantity the cart held for
\* that item before the add; it equals the pre-add count when the cart held
\* no line for the item.
C4_AddThenZeroDropsLine ==
    AddThenZero =>
        /\ getTotalItems(cart) =
             getTotalItems(Ago(1).pre) - QtyOf(Ago(1).pre, Ago(1).id)
        /\ ~HasLine(Ago(1).pre, Ago(1).id) =>
             getTotalItems(cart) = getTotalItems(Ago(1).pre)

\* C4 witness: the run happened on a cart that already held the item.
C4_Witness ==
    /\ AddThenZero
    /\ QtyOf(Ago(1).pre, Ago(1).id) >= 1
    /\ Len(Ago(1).pre) = 2

\* C5 as stated: setQuantity(itemId, n) with n < 0 is rejected and leaves the
\* cart unchanged; no reachable cart contains a line of negative quantity.
C5_NegativeRejected ==
    /\ (Called(0, "update") /\ Ago(0).n < 0) => cart = Ago(0).pre
    /\ \A k \in DOMAIN cart : cart[k].quantity >= 0

\* C6 as stated: setQuantity(itemId, n) with n > 0 results in a cart that has
\* a line for itemId with quantity exactly n, whether or not a line existed.
C6_SetCreatesOrUpdates ==
    (Called(0, "update") /\ Ago(0).n > 0) =>
        \E k \in DOMAIN cart : cart[k].id = Ago(0).id /\ cart[k].quantity = Ago(0).n

\* C6 amended: setQuantity(itemId, n) with n > 0 sets the quantity of the line
\* for itemId to exactly n when that line exists, every other line and the
\* order unchanged; when no line for itemId exists no line is created and the
\* cart is unchanged.
C6_SetUpdatesExisting ==
    (Called(0, "update") /\ Ago(0).n > 0) =>
        LET pre == Ago(0).pre
            id  == Ago(0).id
        IN  /\ Len(cart) = Len(pre)
            /\ \A k \in DOMAIN pre :
                  IF pre[k].id = id
                  THEN cart[k] = [ pre[k] EXCEPT !.quantity = Ago(0).n ]
                  ELSE cart[k] = pre[k]
            /\ ~HasLine(pre, id) => cart = pre /\ ~HasLine(cart, id)

\* C6 witness: a positive quantity was set on an existing line holding another value.
C6_Witness ==
    /\ Called(0, "update") /\ Ago(0).n > 0
    /\ HasLine(Ago(0).pre, Ago(0).id)
    /\ QtyOf(Ago(0).pre, Ago(0).id) # Ago(0).n
    /\ Len(cart) = 2

\* C7: setQuantity(itemId, 0) yields the cart remove(itemId) yields: the line
\* for itemId is gone (not kept with quantity 0), all other lines unchanged.
C7_SetZeroIsRemove ==
    (Called(0, "update") /\ Ago(0).n = 0) =>
        /\ cart = Without(Ago(0).pre, Ago(0).id)
        /\ ~HasLine(cart, Ago(0).id)

\* C7 witness: setQuantity(id, 0) hit an existing line next to another one.
C7_Witness ==
    /\ Called(0, "update") /\ Ago(0).n = 0
    /\ HasLine(Ago(0).pre, Ago(0).id)
    /\ Len(Ago(0).pre) = 2

\* C8: remove(itemId) deletes the line for itemId when present and leaves
\* every other line (id, quantity, relative order) unchanged; when no line
\* for itemId exists the cart is unchanged.
C8_Remove ==
    Called(0, "remove") =>
        /\ cart = Without(Ago(0).pre, Ago(0).id)
        /\ ~HasLine(Ago(0).pre, Ago(0).id) => cart = Ago(0).pre

\* C8 witness: a remove deleted the first of two lines.
C8_Witness ==
    /\ Called(0, "remove")
    /\ Len(Ago(0).pre) = 2
    /\ Ago(0).pre[1].id = Ago(0).id
    /\ Len(cart) = 1

\* C8 second case reached: a remove for an id with no line, on a non-empty cart.
C8_WitnessAbsent ==
    /\ Called(0, "remove")
    /\ ~HasLine(Ago(0).pre, Ago(0).id)
    /\ Len(cart) = 1

\* C9: setQuantity(itemId, n) for an id that has no line in the cart is a
\* no-op for every n.
C9_SetOnAbsentIsNoOp ==
    (Called(0, "update") /\ ~HasLine(Ago(0).pre, Ago(0).id)) => cart = Ago(0).pre

\* C9 witness: a positive quantity was set for an id absent from a non-empty cart.
C9_Witness ==
    /\ Called(0, "update") /\ Ago(0).n > 0
    /\ ~HasLine(Ago(0).pre, Ago(0).id)
    /\ Len(Ago(0).pre) = 1

\* The run add(i), add(i) on the empty cart has just ended, i priced 8.99.
AddTwice899 ==
    /\ Called(1, "add") /\ Called(0, "add")
    /\ Ago(1).pre = << >>
    /\ Ago(0).id = Ago(1).id
    /\ \E item \in Catalog : item.id = Ago(0).id /\ item.price = 899

\* The exact sum over the lines of c of price x quantity, in hundredths.
ExactCents(c) ==
    SumOver(DOMAIN c, [ k \in DOMAIN c |-> c[k].price * c[k].quantity ])

\* C10: totalPrice() is the sum over cart lines of price x quantity, the sum
\* taken exactly on the prices in integer cents, and totalItemCount() the sum
\* over cart lines of quantity; both are 0 for the empty cart; adding an item
\* priced 8.99 twice to the empty cart gives one line of quantity 2,
\* totalPrice 17.98, totalItemCount 2.
C10_Totals ==
    /\ getTotalPrice(cart) = numberOf(ExactCents(cart))
    /\ getTotalItems(cart) =
         SumOver(DOMAIN cart, [ k \in DOMAIN cart |-> cart[k].quantity ])
    /\ cart = << >> => getTotalPrice(cart) = Zero /\ getTotalItems(cart) = 0
    /\ AddTwice899 =>
         /\ Len(cart) = 1
         /\ cart[1].quantity = 2
         /\ getTotalPrice(cart) = numberOf(1798)
         /\ getTotalItems(cart) = 2

\* The cart on which C10 fails: 8.99 once and 5.00 twice, where the doubles add
\* up to 18.990000000000002 and not to the double of 18.99.
C10_RoundedSum ==
    /\ Len(cart) = 2
    /\ cart[1].price = 899 /\ cart[1].quantity = 1
    /\ cart[2].price = 500 /\ cart[2].quantity = 2
    /\ getTotalPrice(cart) # numberOf(1899)
    /\ getTotalPrice(cart) = add(numberOf(899), multiply(numberOf(500), 2))

\* ---------------------------------------------------------------- favorites claims
\* The ids held by a favorites list.
IdsOf(favs) == { favs[k] : k \in DOMAIN favs }

\* The run toggle(id), toggle(id) has just ended.
ToggledTwice ==
    /\ Called(1, "toggle") /\ Called(0, "toggle")
    /\ Ago(0).id = Ago(1).id

\* C11: toggleFavorite(itemId) flips the membership of itemId in the favorites
\* (adds when absent, removes when present) and changes no other id's
\* membership; two successive calls with the same id return the favorites to
\* their original set of ids; the list never holds the same id twice.
C11_ToggleFavorite ==
    /\ Called(0, "toggle") =>
         /\ (Ago(0).id \in IdsOf(favorites)) = (Ago(0).id \notin IdsOf(Ago(0).pre))
         /\ IdsOf(favorites) \ {Ago(0).id} = IdsOf(Ago(0).pre) \ {Ago(0).id}
    /\ ToggledTwice => IdsOf(favorites) = IdsOf(Ago(1).pre)
    /\ \A j, k \in DOMAIN favorites : favorites[j] = favorites[k] => j = k

\* C11 witness: an id that was first of two favorites was toggled twice; the
\* set of ids is back, the id now being last in the list.
C11_Witness ==
    /\ ToggledTwice
    /\ Len(Ago(1).pre) = 2
    /\ Ago(1).pre[1] = Ago(0).id
    /\ favorites[2] = Ago(0).id

\* ---------------------------------------------------------------- view claims
\* The position of x in seq, and how often x occurs in it.
PosIn(seq, x) == CHOOSE k \in DOMAIN seq : seq[k] = x

Count(seq, x) == Cardinality({ k \in DOMAIN seq : seq[k] = x })

\* sub lists its elements in the order seq lists them.
InOrderOf(sub, seq) ==
    \A i, j \in DOMAIN sub : i < j => PosIn(seq, sub[i]) < PosIn(seq, sub[j])

\* Two characters are the same letter, case ignored.
SameLetter(c1, c2) ==
    \/ c1 = c2
    \/ { c1, c2 } = { "a", "A" }
    \/ { c1, c2 } = { "b", "B" }

\* text occurs in str as a contiguous run, case ignored.
OccursIgnoringCase(text, str) ==
    \E i \in 0 .. (Len(str) - Len(text)) :
        \A j \in 1 .. Len(text) : SameLetter(text[j], str[i + j])

\* The inclusion rule of the catalog filter for the current selections.
Shown(item) ==
    /\ selectedCategory = "all" \/ item.category = selectedCategory
    /\ \/ OccursIgnoringCase(searchTerm, item.name)
       \/ OccursIgnoringCase(searchTerm, item.description)

\* C12: the filtered view contains an item iff (selectedCategory is "all" or
\* equals item.category) and (the search text is a case-insensitive substring
\* of item.name or of item.description); each matching catalog item appears
\* exactly once, in catalog order; empty search text matches every item; the
\* catalog list itself is not changed.
C12_FilteredView ==
    /\ \A k \in DOMAIN items :
          Count(filteredItems, items[k]) = (IF Shown(items[k]) THEN 1 ELSE 0)
    /\ \A k \in DOMAIN filteredItems : Count(items, filteredItems[k]) = 1
    /\ InOrderOf(filteredItems, items)
    /\ (searchTerm = << >> /\ selectedCategory = "all") => filteredItems = items
    /\ items = (IF mounted THEN menu ELSE << >>)

\* C12 witness: a search text typed in upper case, together with a category,
\* keeps some items of a three-item catalog and drops others.
C12_Witness ==
    /\ mounted /\ Len(items) = 3
    /\ searchTerm = << "B" >> /\ selectedCategory = "pizza"
    /\ Len(filteredItems) = 2

\* The ids of a sequence of items, in order.
IdSeq(seq) == [ k \in DOMAIN seq |-> seq[k].id ]

\* C13: for every sort key the sorted view is a permutation of the filtered
\* view (same multiset of item ids), and computing it changes neither the
\* filtered sequence, which stays in catalog order, nor the catalog.
C13_SortedIsPermutation ==
    /\ Len(sortedItems) = Len(filteredItems)
    /\ \A id \in 1 .. Len(ItemPool) :
          Count(IdSeq(sortedItems), id) = Count(IdSeq(filteredItems), id)
    /\ InOrderOf(filteredItems, items)
    /\ filteredItems = SelectSeq(items, Shown)
    /\ mounted => items = menu

\* C13 witness: three items are shown and the sort moved them.
C13_Witness ==
    /\ mounted
    /\ Len(filteredItems) = 3
    /\ sortedItems # filteredItems
    /\ sortedItems[1] = filteredItems[3]

\* The first character of each letter of a name as a host of locale loc reads
\* it: every character, but the second of a Danish or Norwegian aa, Aa or AA.
LetterStarts(name, loc) ==
    LET pair(k) == loc \in { "da-DK", "nb-NO" } /\ k < Len(name) /\ name[k + 1] \in { "a", "A" }
                   /\ name[k] \in { "a", "A" }
                   /\ ~(name[k] = "a" /\ name[k + 1] = "A")
        starts[k \in 1 .. Len(name)] ==
            \/ k = 1
            \/ starts[k - 1] /\ ~pair(k - 1)
            \/ k > 2 /\ starts[k - 2] /\ pair(k - 2)
    IN  SelectSeq([ k \in 1 .. Len(name) |-> k ], LAMBDA k : starts[k])

\* A name's letters, a separator, then its letters' cases: sequences ordered
\* entry by entry give the host's locale-aware order of names.  The digraph
\* is the last letter; of two letters equal but for case the one with fewer
\* lower-case characters is first on a Danish or Maltese host and last on an
\* English or Norwegian one.
CollationKey(name, loc) ==
    LET at     == LetterStarts(name, loc)
        n      == Len(at)
        last(j) == IF j < n THEN at[j + 1] - 1 ELSE Len(name)
        lowers(j) == Cardinality({ k \in at[j] .. last(j) : name[k] \in { "a", "b" } })
    IN  [ j \in 1 .. (2 * n + 1) |->
            IF j <= n
            THEN (IF last(j) > at[j] THEN 3
                  ELSE IF name[at[j]] \in { "a", "A" } THEN 1 ELSE 2)
            ELSE IF j = n + 1 THEN 0
            ELSE IF loc \in { "da-DK", "mt-MT" } THEN 1 + lowers(j - n - 1)
            ELSE 3 - lowers(j - n - 1) ]

\* x comes before y, or is y, entry by entry.
SeqLeq(x, y) ==
    \/ x = y
    \/ \E k \in 1 .. Len(y) :
          /\ \A j \in 1 .. (k - 1) : j <= Len(x) /\ x[j] = y[j]
          /\ k > Len(x) \/ x[k] < y[k]

Flagged(item) == "popular" \in DOMAIN item /\ item.popular = TRUE

\* a may stand before b in a view sorted by key on a host of locale loc.
MayPrecede(a, b, key, loc) ==
    CASE key = "price-low"  -> a.price <= b.price
      [] key = "price-high" -> a.price >= b.price
      [] key = "rating"     -> a.rating >= b.rating
      [] key = "name"       -> SeqLeq(CollationKey(a.name, loc), CollationKey(b.name, loc))
      [] key = "popular"    -> Flagged(a) \/ ~Flagged(b)

\* a and b compare equal under key.
SameRank(a, b, key, loc) == MayPrecede(a, b, key, loc) /\ MayPrecede(b, a, key, loc)

PriceSeq(seq) == [ k \in DOMAIN seq |-> seq[k].price ]

\* C14: the sorted view is ordered by the selected key: prices non-decreasing
\* for "price-low", non-increasing for "price-high" (prices [5, 12, 8] give
\* [12, 8, 5]), ratings non-increasing for "rating", names ascending in the
\* locale-aware order of the host for "name", every popular-flagged item
\* before every unflagged one for "popular"; items that compare equal keep
\* their order from the filtered input.
C14_SortedByKey ==
    /\ \A i, j \in DOMAIN sortedItems :
          i < j =>
            /\ MayPrecede(sortedItems[i], sortedItems[j], sortBy, locale)
            /\ SameRank(sortedItems[i], sortedItems[j], sortBy, locale) =>
                 PosIn(filteredItems, sortedItems[i]) < PosIn(filteredItems, sortedItems[j])
    /\ (sortBy = "price-high" /\ PriceSeq(filteredItems) = << 500, 1200, 800 >>) =>
          PriceSeq(sortedItems) = << 1200, 800, 500 >>

\* C14 witness: items priced [5, 12, 8] are shown sorted by "price-high".
C14_Witness ==
    /\ mounted
    /\ sortBy = "price-high"
    /\ PriceSeq(filteredItems) = << 500, 1200, 800 >>
    /\ PriceSeq(sortedItems) = << 1200, 800, 500 >>

\* C14 tie case reached: two items of equal price keep their filtered order
\* and move before a dearer item that preceded them.
C14_WitnessTie ==
    /\ mounted
    /\ sortBy = "price-low"
    /\ IdSeq(filteredItems) = << 2, 4, 1 >>
    /\ IdSeq(sortedItems) = << 4, 1, 2 >>

\* C14 name case reached: names differing only in case, lower case first on an
\* English host.
C14_WitnessName ==
    /\ mounted
    /\ sortBy = "name"
    /\ locale = "en-US"
    /\ IdSeq(filteredItems) = << 4, 1, 2 >>
    /\ IdSeq(sortedItems) = << 2, 1, 4 >>

\* C14 name case reached on a Danish host: upper case first, and the name
\* "aa" last where an English host puts it first.
C14_WitnessNameDanish ==
    /\ mounted
    /\ sortBy = "name"
    /\ locale = "da-DK"
    /\ IdSeq(filteredItems) = << 3, 2, 1 >>
    /\ IdSeq(sortedItems) = << 1, 2, 3 >>

\* C14 name case reached on a Norwegian host: lower case first, "aa" last.
C14_WitnessNameNorwegian ==
    /\ mounted
    /\ sortBy = "name"
    /\ locale = "nb-NO"
    /\ IdSeq(filteredItems) = << 1, 2, 3 >>
    /\ IdSeq(sortedItems) = << 2, 1, 3 >>

\* C14 name case reached on a Maltese host: upper case first, "aa" two
\* letters and so first.
C14_WitnessNameMaltese ==
    /\ mounted
    /\ sortBy = "name"
    /\ locale = "mt-MT"
    /\ IdSeq(filteredItems) = << 1, 2, 3 >>
    /\ IdSeq(sortedItems) = << 3, 1, 2 >>

\* ---------------------------------------------------------------- page claims
\* A minus click has just hit a line of quantity 1.
MinusOnOne ==
    /\ Called(0, "update")
    /\ QtyOf(Ago(0).pre, Ago(0).id) = 1
    /\ Ago(0).n = 0

\* C15: under the cart events the page emits (Add to Cart, remove, plus and
\* minus with the displayed quantity of an existing line) every cart line has
\* quantity >= 1; so the cart is non-empty iff totalItemCount() > 0, and a
\* minus click on a line of quantity 1 removes the line.
C15_PageKeepsQuantitiesPositive ==
    /\ \A k \in DOMAIN cart : cart[k].quantity >= 1
    /\ (cart # << >>) <=> (getTotalItems(cart) > 0)
    /\ Called(0, "update") =>
         /\ HasLine(Ago(0).pre, Ago(0).id)
         /\ Ago(0).n \in { QtyOf(Ago(0).pre, Ago(0).id) - 1,
                           QtyOf(Ago(0).pre, Ago(0).id) + 1 }
    /\ MinusOnOne =>
         /\ ~HasLine(cart, Ago(0).id)
         /\ Len(cart) = Len(Ago(0).pre) - 1

\* C15 witness: a minus click on a line of quantity 1 left only the other line.
C15_Witness ==
    /\ MinusOnOne
    /\ Len(Ago(0).pre) = 2
    /\ Len(cart) = 1

\* The view selections, and the catalog they are applied to.
selections == << selectedCategory, searchTerm, sortBy >>

catalog == << menu, items >>

\* C16: the state parts are independent: a step that changes the cart
\* (addToCart, removeFromCart, updateQuantity) leaves favorites, selected
\* category, search text, sort key and the catalog unchanged; a step that
\* changes the favorites (toggleFavorite) leaves the cart and the view state
\* unchanged; a change of category, search text or sort key leaves the cart
\* and the favorites unchanged, so a cart line persists when its item is
\* filtered out of the displayed view.
C16_StatePartsIndependent ==
    [][ /\ cart' # cart =>
             UNCHANGED << favorites, selections, catalog, filteredItems, sortedItems >>
        /\ favorites' # favorites =>
             UNCHANGED << cart, selections, catalog, filteredItems, sortedItems >>
        /\ selections' # selections =>
             UNCHANGED << cart, favorites, catalog >>
        /\ \A k \in DOMAIN cart :
             (selections' # selections /\ ~HasLine(sortedItems', cart[k].id)) =>
                 HasLine(cart', cart[k].id) ]_vars

\* C16 witness: the cart and the favorites both hold an item that the current
\* category and search text filter out of the view.
C16_Witness ==
    /\ mounted
    /\ \E k \in DOMAIN cart :
          /\ ~HasLine(sortedItems, cart[k].id)
          /\ cart[k].id \in IdsOf(favorites)
    /\ selectedCategory # "all"
    /\ searchTerm # << >>
    /\ sortBy # "popular"

====
